---------------------------- MODULE Spec2Model ----------------------------
(***************************************************************************)
(* Verification model of kakeibo-invest:                                   *)
(*   - the quote cache gateway, GET /api/stock-cached/:symbol              *)
(*     (backend/server.js), one action per await point of the handler;     *)
(*   - the virtual investment simulator, calculateSimulation               *)
(*     (components/VirtualInvestmentSimulator.js);                         *)
(*   - the ledger-reconciled simulation (components/InvestmentSimulation), *)
(*     with the chart series both components draw;                         *)
(*   - the monthly aggregation of investment expenses                      *)
(*     (GET /api/expenses/investment and its client-side counterpart);     *)
(*   - the household-ledger endpoints, /api/kakeibo and /api/expenses;     *)
(*   - the data load of the invest page, fetchData (app/invest/page.js).   *)
(* JavaScript numbers are modelled as exact rationals extended with the    *)
(* IEEE special values NaN and +/-Infinity (rounding is not modelled).     *)
(***************************************************************************)
EXTENDS Integers, Sequences, FiniteSets, TLC

(***************************************************************************)
(* Bounds of the model.                                                    *)
(***************************************************************************)
NumReq == 2          \* concurrent request slots of the gateway
MaxTime == 48        \* the clock stops advancing here (hours)
NumSeries == 2       \* distinct valid upstream payloads
MaxLen == 2          \* entries of a price series
MaxMonth == 1        \* months 0..MaxMonth carry series dates
MaxDay == 2          \* days 1..MaxDay of a month carry series dates
MaxExpenses == 2     \* records of the expense list

(***************************************************************************)
(* Program constants.                                                      *)
(***************************************************************************)
CACHE_EXPIRY_HOURS == 24
MonthsPerYear == 12
InitialInvestmentAmount == 1000000
InitialYearsAgo == 5
LumpChartStep == 3
MonthlyChartStep == 6
LedgerChartStep == 2

Symbols == {"SPY", "QQQ"}
Reqs == 1..NumReq
TickSteps == {12, 24}

(***************************************************************************)
(* JavaScript numbers: exact rationals n/d in lowest terms (d > 0), NaN,   *)
(* +Infinity and -Infinity.  A value that has no rational form (a root)    *)
(* is kept as a term.                                                      *)
(***************************************************************************)
Abs(i) == IF i < 0 THEN -i ELSE i
Sign(i) == IF i < 0 THEN -1 ELSE 1

RECURSIVE GCD(_, _)
GCD(a, b) == IF b = 0 THEN a ELSE GCD(b, a % b)

NaN == [t |-> "nan"]
Inf(sg) == [t |-> "inf", s |-> sg]
Rat(n, d) == LET g == GCD(Abs(n), Abs(d))
             IN [t |-> "rat", n |-> (Sign(d) * n) \div g, d |-> Abs(d) \div g]
Num(i) == [t |-> "rat", n |-> i, d |-> 1]
IsRat(x) == x.t = "rat"
IsInf(x) == x.t = "inf"
IsNaN(x) == x.t = "nan"
IsTerm(x) == x.t = "term"
Term(op, x, y) == [t |-> "term", op |-> op, x |-> x, y |-> y]
SignOf(x) == IF IsInf(x) THEN x.s ELSE Sign(x.n)
IsZero(x) == IsRat(x) /\ x.n = 0

FNeg(x) == IF IsRat(x) THEN Rat(-x.n, x.d)
           ELSE IF IsInf(x) THEN Inf(-x.s)
           ELSE IF IsTerm(x) THEN Term("neg", x, x) ELSE NaN

FAdd(x, y) ==
    IF IsNaN(x) \/ IsNaN(y) THEN NaN
    ELSE IF IsTerm(x) \/ IsTerm(y) THEN Term("+", x, y)
    ELSE IF IsRat(x) /\ IsRat(y) THEN Rat(x.n * y.d + y.n * x.d, x.d * y.d)
    ELSE IF IsInf(x) /\ IsInf(y) THEN (IF x.s = y.s THEN x ELSE NaN)
    ELSE IF IsInf(x) THEN x ELSE y

FSub(x, y) == IF IsTerm(x) \/ IsTerm(y) THEN Term("-", x, y) ELSE FAdd(x, FNeg(y))

FMul(x, y) ==
    IF IsNaN(x) \/ IsNaN(y) THEN NaN
    ELSE IF IsTerm(x) \/ IsTerm(y) THEN Term("*", x, y)
    ELSE IF IsRat(x) /\ IsRat(y) THEN Rat(x.n * y.n, x.d * y.d)
    ELSE IF IsZero(x) \/ IsZero(y) THEN NaN
    ELSE Inf(SignOf(x) * SignOf(y))

FDiv(x, y) ==
    IF IsNaN(x) \/ IsNaN(y) THEN NaN
    ELSE IF IsTerm(x) \/ IsTerm(y) THEN Term("/", x, y)
    ELSE IF IsRat(x) /\ IsRat(y)
         THEN IF y.n # 0 THEN Rat(x.n * y.d, x.d * y.n)
              ELSE IF x.n = 0 THEN NaN ELSE Inf(Sign(x.n))
    ELSE IF IsInf(x) /\ IsInf(y) THEN NaN
    ELSE IF IsInf(x) THEN Inf(x.s * SignOf(y))
    ELSE Num(0)

\* x < y and x > y of JavaScript on non-term values (false when either is NaN)
FLt(x, y) ==
    IF IsNaN(x) \/ IsNaN(y) THEN FALSE
    ELSE IF IsRat(x) /\ IsRat(y) THEN x.n * y.d < y.n * x.d
    ELSE IF IsInf(x) /\ IsInf(y) THEN x.s < y.s
    ELSE IF IsInf(x) THEN x.s < 0 ELSE y.s > 0
FGt(x, y) == FLt(y, x)

\* Math.pow(x, e) for the exponents the simulator uses, e = 1 / yearsAgo
MathPow(x, e) ==
    IF IsNaN(x) \/ IsNaN(e) THEN NaN
    ELSE IF IsInf(e)
         THEN IF x = Num(1) \/ x = Num(-1) THEN NaN
              ELSE IF IsInf(x) \/ FGt(x, Num(1)) \/ FLt(x, Num(-1))
                   THEN (IF e.s > 0 THEN Inf(1) ELSE Num(0))
                   ELSE (IF e.s > 0 THEN Num(0) ELSE Inf(1))
    ELSE IF e = Num(1) THEN x
    ELSE IF x = Num(1) THEN Num(1)
    ELSE IF FLt(x, Num(0)) THEN NaN
    ELSE IF IsZero(x) THEN Num(0)
    ELSE IF IsInf(x) THEN Inf(1)
    ELSE Term("pow", x, e)

(***************************************************************************)
(* Price series.  A date "YYYY-MM-DD" is [ym, day] with ym the month       *)
(* counted from an epoch; a close is the provider's 4-decimal string, kept *)
(* as its number of ten-thousandths.  stockData["Monthly Time Series"] is  *)
(* the sequence of its entries in insertion order; its keys are distinct.  *)
(***************************************************************************)
Dates == {[ym |-> m, day |-> d] : m \in 0..MaxMonth, d \in 1..MaxDay}
Closes == {3000000, 5000000}
Entries == {[date |-> dt, close |-> c] : dt \in Dates, c \in Closes}

DistinctDates(sq) == \A i, j \in 1..Len(sq) : i # j => sq[i].date # sq[j].date
TimeSeriesOfLen(n) == {sq \in [1..n -> Entries] : DistinctDates(sq)}

\* parseFloat(values["4. close"])
parseFloat(c) == Rat(c, 10000)

\* new Date(a.date) - new Date(b.date) < 0, both parsed as UTC midnights
DateBefore(a, b) == a.ym < b.ym \/ (a.ym = b.ym /\ a.day < b.day)

\* The provider lists a series newest first; oldest first is covered too.
Descending(sq) == \A i \in 1..(Len(sq) - 1) : DateBefore(sq[i + 1].date, sq[i].date)
Ascending(sq) == \A i \in 1..(Len(sq) - 1) : DateBefore(sq[i].date, sq[i + 1].date)
TimeSeries == UNION {{sq \in TimeSeriesOfLen(n) : Descending(sq) \/ Ascending(sq)} :
                     n \in 0..MaxLen}

\* (mutant) the comparator reversed: (a, b) => new Date(b.date) - new Date(a.date)
DateAfter(a, b) == DateBefore(b, a)

\* a.date goes before b.date in Array.prototype.sort's result
SortsBefore(a, b) == DateBefore(a, b)

RECURSIVE InsertSorted(_, _)
InsertSorted(sq, e) ==
    IF sq = <<>> THEN <<e>>
    ELSE IF SortsBefore(e.date, Head(sq).date) THEN <<e>> \o sq
    ELSE <<Head(sq)>> \o InsertSorted(Tail(sq), e)

\* (mutant) the entries left in the order the source lists them
SortByDateOmitted(sq) == sq

RECURSIVE SortByDate(_)
SortByDate(sq) ==
    IF sq = <<>> THEN <<>>
    ELSE InsertSorted(SortByDate(SubSeq(sq, 1, Len(sq) - 1)), sq[Len(sq)])

\* Object.entries(timeSeries).map(...).sort(...)
SortedData(ts) ==
    SortByDate([i \in 1..Len(ts) |-> [date |-> ts[i].date,
                                      price |-> parseFloat(ts[i].close)]])

RECURSIVE NotBefore(_, _, _)
\* sq.filter(item => new Date(item.date) >= new Date(date)), from index i
NotBefore(sq, i, date) ==
    IF i > Len(sq) THEN <<>>
    ELSE (IF ~DateBefore(sq[i].date, date) THEN <<sq[i]>> ELSE <<>>)
         \o NotBefore(sq, i + 1, date)

(***************************************************************************)
(* The virtual investment simulator.                                       *)
(***************************************************************************)
\* The environment of one run: the local date (its month) read by
\* new Date(), and whether local midnight falls after UTC midnight (a zone
\* west of Greenwich), which decides new Date("YYYY-MM-01") >= targetDate.
Envs == {[ym |-> MonthsPerYear + 1, west |-> w] : w \in BOOLEAN}

\* new Date(currentDate.getFullYear() - yearsAgo, currentDate.getMonth(), 1)
TargetDate(e, years) == [ym |-> e.ym - years * MonthsPerYear, day |-> 1]

\* new Date(item.date) >= targetDate
OnOrAfterTarget(date, target, e) ==
    \/ date.ym > target.ym
    \/ date.ym = target.ym /\ (date.day > target.day \/ ~e.west)

RECURSIVE Find(_, _, _, _)
\* sortedData.find(item => new Date(item.date) >= targetDate), from index i;
\* 0 stands for undefined
Find(sortedData, i, target, e) ==
    IF i > Len(sortedData) THEN 0
    ELSE IF OnOrAfterTarget(sortedData[i].date, target, e) THEN i
    ELSE Find(sortedData, i + 1, target, e)

\* sortedData.find(...) || sortedData[0]
StartPoint(sortedData, target, e) ==
    LET i == Find(sortedData, 1, target, e)
    IN IF i # 0 THEN sortedData[i] ELSE sortedData[1]

\* (mutant) currentValue computed at the purchase price
LumpSumAtStartPrice(amount, startPoint, currentPoint, years) ==
    LET shares == FDiv(amount, startPoint.price)
        currentValue == FMul(shares, startPoint.price)
        profit == FSub(currentValue, amount)
    IN [type |-> "lump", startDate |-> startPoint.date,
        startPrice |-> startPoint.price, currentPrice |-> currentPoint.price,
        shares |-> shares, investedAmount |-> amount,
        currentValue |-> currentValue, profit |-> profit,
        profitPercent |-> FMul(FDiv(profit, amount), Num(100)),
        annualReturn |-> FMul(FSub(MathPow(FDiv(currentValue, amount),
                                           FDiv(Num(1), Num(years))), Num(1)),
                              Num(100))]

\* The lump-sum branch of calculateSimulation.
LumpSum(amount, startPoint, currentPoint, years) ==
    LET shares == FDiv(amount, startPoint.price)
        currentValue == FMul(shares, currentPoint.price)
        profit == FSub(currentValue, amount)
        profitPercent == FMul(FDiv(profit, amount), Num(100))
        annualReturn == FSub(MathPow(FDiv(currentValue, amount),
                                     FDiv(Num(1), Num(years))), Num(1))
    IN [type |-> "lump", startDate |-> startPoint.date,
        startPrice |-> startPoint.price, currentPrice |-> currentPoint.price,
        shares |-> shares, investedAmount |-> amount,
        currentValue |-> currentValue, profit |-> profit,
        profitPercent |-> profitPercent,
        annualReturn |-> FMul(annualReturn, Num(100))]

\* (mutant) the budget split per year instead of per month
MonthlyAmountPerYear(amount, years) == FDiv(amount, Num(years))

\* const monthlyAmount = investmentAmount / (yearsAgo * 12)
MonthlyAmount(amount, years) == FDiv(amount, Num(years * MonthsPerYear))

RECURSIVE MonthlyHistoryBeforePurchase(_, _, _, _, _, _, _)
\* (mutant) the history entry pushed before the accumulators are updated
MonthlyHistoryBeforePurchase(relevantData, i, limit, monthlyAmount, currentPoint, totalShares, totalInvested) ==
    IF ~(i <= Len(relevantData) /\ i <= limit) THEN <<>>
    ELSE LET monthData == relevantData[i]
             currentValue == FMul(totalShares, currentPoint.price)
         IN <<[date |-> monthData.date, monthlyInvestment |-> monthlyAmount,
               totalInvested |-> totalInvested, shares |-> totalShares,
               currentValue |-> currentValue,
               profit |-> FSub(currentValue, totalInvested)]>>
            \o MonthlyHistoryBeforePurchase(relevantData, i + 1, limit, monthlyAmount, currentPoint,
                                            FAdd(totalShares, FDiv(monthlyAmount, monthData.price)),
                                            FAdd(totalInvested, monthlyAmount))

RECURSIVE MonthlyHistory(_, _, _, _, _, _, _)
\* for (let i = 0; i < relevantData.length && i < yearsAgo * 12; i++) { ... }
\* (i counts from 1 here); returns investmentHistory
MonthlyHistory(relevantData, i, limit, monthlyAmount, currentPoint, totalShares, totalInvested) ==
    IF ~(i <= Len(relevantData) /\ i <= limit) THEN <<>>
    ELSE LET monthData == relevantData[i]
             shares == FDiv(monthlyAmount, monthData.price)
             newShares == FAdd(totalShares, shares)
             newInvested == FAdd(totalInvested, monthlyAmount)
             currentValue == FMul(newShares, currentPoint.price)
         IN <<[date |-> monthData.date, monthlyInvestment |-> monthlyAmount,
               totalInvested |-> newInvested, shares |-> newShares,
               currentValue |-> currentValue,
               profit |-> FSub(currentValue, newInvested)]>>
            \o MonthlyHistory(relevantData, i + 1, limit, monthlyAmount,
                              currentPoint, newShares, newInvested)

Min(a, b) == IF a < b THEN a ELSE b

\* The result object of the periodic branch, from the totals the loop leaves:
\* finalCurrentValue, finalProfit, finalProfitPercent, annualReturn.
MonthlyResult(startPoint, currentPoint, years, monthlyAmount, totalMonths, investmentHistory, totalShares, totalInvested) ==
    LET finalCurrentValue == FMul(totalShares, currentPoint.price)
        finalProfit == FSub(finalCurrentValue, totalInvested)
        finalProfitPercent == IF FGt(totalInvested, Num(0))
                              THEN FMul(FDiv(finalProfit, totalInvested), Num(100))
                              ELSE Num(0)
        annualReturn == IF FGt(totalInvested, Num(0))
                        THEN FSub(MathPow(FDiv(finalCurrentValue, totalInvested),
                                          FDiv(Num(1), Num(years))), Num(1))
                        ELSE Num(0)
    IN [type |-> "monthly", startDate |-> startPoint.date,
        monthlyAmount |-> monthlyAmount, totalMonths |-> totalMonths,
        shares |-> totalShares, investedAmount |-> totalInvested,
        currentValue |-> finalCurrentValue, profit |-> finalProfit,
        profitPercent |-> finalProfitPercent,
        annualReturn |-> FMul(annualReturn, Num(100)),
        investmentHistory |-> investmentHistory]

RECURSIVE LoopTotals(_, _, _, _, _, _)
\* totalShares and totalInvested as the loop leaves them:
\* totalShares += shares; totalInvested += monthlyAmount at every pass
LoopTotals(relevantData, i, limit, monthlyAmount, totalShares, totalInvested) ==
    IF ~(i <= Len(relevantData) /\ i <= limit)
    THEN [totalShares |-> totalShares, totalInvested |-> totalInvested]
    ELSE LoopTotals(relevantData, i + 1, limit, monthlyAmount,
                    FAdd(totalShares, FDiv(monthlyAmount, relevantData[i].price)),
                    FAdd(totalInvested, monthlyAmount))

\* The result object from the loop's accumulators and its history.
MonthlyTotals(totals, startPoint, currentPoint, years, monthlyAmount, totalMonths, investmentHistory) ==
    MonthlyResult(startPoint, currentPoint, years, monthlyAmount, totalMonths,
                  investmentHistory, totals.totalShares, totals.totalInvested)

\* The loop over relevantData with the per-month instalment.
MonthlyOver(relevantData, monthlyAmount, startPoint, currentPoint, years) ==
    MonthlyTotals(LoopTotals(relevantData, 1, years * MonthsPerYear,
                             monthlyAmount, Num(0), Num(0)),
                  startPoint, currentPoint, years, monthlyAmount,
                  Min(Len(relevantData), years * MonthsPerYear),
                  MonthlyHistory(relevantData, 1, years * MonthsPerYear,
                                 monthlyAmount, currentPoint, Num(0), Num(0)))

\* The periodic (monthly) branch of calculateSimulation.
Monthly(amount, sortedData, startPoint, currentPoint, years) ==
    MonthlyOver(NotBefore(sortedData, 1, startPoint.date),
                MonthlyAmount(amount, years), startPoint, currentPoint, years)

(***************************************************************************)
(* Chart series: every Nth entry of a list, as parallel arrays.            *)
(***************************************************************************)
RECURSIVE FilterEvery(_, _, _)
\* sq.filter((_, index) => index % n === 0), from position i (index i - 1)
FilterEvery(sq, i, n) ==
    IF i > Len(sq) THEN <<>>
    ELSE (IF (i - 1) % n = 0 THEN <<sq[i]>> ELSE <<>>) \o FilterEvery(sq, i + 1, n)

\* `${date.getFullYear()}/${String(date.getMonth() + 1).padStart(2, '0')}` of
\* new Date(item.date): the local year and month of a UTC midnight
ChartLabel(date, west) == IF west /\ date.day = 1 THEN date.ym - 1 ELSE date.ym

\* .map(item => label of item.date)
LabelsOf(shown, west) == [k \in 1..Len(shown) |-> ChartLabel(shown[k].date, west)]

\* sortedData.findIndex(item => item.date === startPoint.date), counted from 1
FindIndex(sortedData, date) ==
    CHOOSE i \in 1..Len(sortedData) :
        /\ sortedData[i].date = date
        /\ \A j \in 1..(i - 1) : sortedData[j].date # date

\* the three arrays of a chart: labels, datasets[0].data, datasets[1].data
Chart(labels, principal, valuation) ==
    [labels |-> labels, principal |-> principal, valuation |-> valuation]

\* generateLumpSumChart over relevantData = sortedData.slice(startIndex)
LumpSumChartOver(relevantData, shares, amount, west) ==
    Chart(LabelsOf(FilterEvery(relevantData, 1, LumpChartStep), west),
          [k \in 1..Len(FilterEvery(relevantData, 1, LumpChartStep)) |-> amount],
          [k \in 1..Len(FilterEvery(relevantData, 1, LumpChartStep)) |->
              FMul(shares, FilterEvery(relevantData, 1, LumpChartStep)[k].price)])

generateLumpSumChart(sortedData, startPoint, amount, west) ==
    LumpSumChartOver(SubSeq(sortedData, FindIndex(sortedData, startPoint.date),
                            Len(sortedData)),
                     FDiv(amount, startPoint.price), amount, west)

\* (mutant) the valuation array thinned with the lump-sum chart's step
generateMonthlyChartUneven(history, west) ==
    Chart(LabelsOf(FilterEvery(history, 1, MonthlyChartStep), west),
          [k \in 1..Len(FilterEvery(history, 1, MonthlyChartStep)) |->
              FilterEvery(history, 1, MonthlyChartStep)[k].totalInvested],
          [k \in 1..Len(FilterEvery(history, 1, LumpChartStep)) |->
              FilterEvery(history, 1, LumpChartStep)[k].currentValue])

generateMonthlyChart(history, west) ==
    Chart(LabelsOf(FilterEvery(history, 1, MonthlyChartStep), west),
          [k \in 1..Len(FilterEvery(history, 1, MonthlyChartStep)) |->
              FilterEvery(history, 1, MonthlyChartStep)[k].totalInvested],
          [k \in 1..Len(FilterEvery(history, 1, MonthlyChartStep)) |->
              FilterEvery(history, 1, MonthlyChartStep)[k].currentValue])

\* chartData: generateLumpSumChart(sortedData, startPoint, investmentAmount, yearsAgo)
WithLumpSumChart(result, sortedData, startPoint, amount, west) ==
    result @@ [chartData |-> generateLumpSumChart(sortedData, startPoint, amount, west)]

\* chartData: generateMonthlyChart(investmentHistory)
WithMonthlyChart(result, west) ==
    result @@ [chartData |-> generateMonthlyChart(result.investmentHistory, west)]

NoResult == [type |-> "null"]

\* calculateSimulation: the result passed to setSimulationResult, or
\* NoResult when it returns early (empty series).
calculateSimulation(ts, amount, years, type, e) ==
    LET sortedData == SortedData(ts)
    IN IF Len(sortedData) = 0 THEN NoResult
       ELSE LET startPoint == StartPoint(sortedData, TargetDate(e, years), e)
                currentPoint == sortedData[Len(sortedData)]
            IN IF type = "lump"
               THEN WithLumpSumChart(LumpSum(Num(amount), startPoint, currentPoint, years),
                                     sortedData, startPoint, Num(amount), e.west)
               ELSE WithMonthlyChart(Monthly(Num(amount), sortedData, startPoint,
                                             currentPoint, years), e.west)

(***************************************************************************)
(* The ledger-reconciled simulation (InvestmentSimulation component).      *)
(* expenseData.monthlyData is the list of {month, totalAmount} groups, one *)
(* per month, ascending by month, as the aggregation produces it.          *)
(***************************************************************************)
LedgerAmounts == {0, 1000, 2000}
MonthGroups == {[month |-> m, totalAmount |-> a] : m \in 0..MaxMonth, a \in LedgerAmounts}
AscendingMonths(sq) == \A i, j \in 1..Len(sq) : i < j => sq[i].month < sq[j].month
MonthlyDatas == UNION {{sq \in [1..n -> MonthGroups] : AscendingMonths(sq)} :
                       n \in 0..(MaxMonth + 1)}

\* stockPoint.date.substring(0, 7)
MonthKey(date) == date.ym

RECURSIVE LastAmountFor(_, _, _)
\* investmentsByMonth[monthKey] after the reduce over monthlyData[1..k]:
\* the totalAmount of the last group with that month, undefined (-1) if none
LastAmountFor(monthlyData, k, key) ==
    IF k = 0 THEN -1
    ELSE IF monthlyData[k].month = key THEN monthlyData[k].totalAmount
    ELSE LastAmountFor(monthlyData, k - 1, key)

\* (mutant) a month without a group takes the first group's amount
InvestmentOrFirst(monthlyData, key) ==
    LET v == LastAmountFor(monthlyData, Len(monthlyData), key)
    IN IF v = -1
       THEN (IF monthlyData = <<>> THEN 0 ELSE monthlyData[1].totalAmount)
       ELSE v

\* investmentsByMonth[monthKey] || 0
MonthlyInvestment(monthlyData, key) ==
    LET v == LastAmountFor(monthlyData, Len(monthlyData), key)
    IN IF v = -1 THEN 0 ELSE v

RECURSIVE LedgerWalkNoAccumulate(_, _, _, _, _)
\* (mutant) totalShares = sharesCanBuy; totalInvested = monthlyInvestment
LedgerWalkNoAccumulate(stockPrices, i, monthlyData, totalInvested, totalShares) ==
    IF i > Len(stockPrices) THEN <<>>
    ELSE LET stockPoint == stockPrices[i]
             monthKey == MonthKey(stockPoint.date)
             monthlyInvestment == MonthlyInvestment(monthlyData, monthKey)
             buys == monthlyInvestment > 0
             newShares == IF buys THEN FDiv(Num(monthlyInvestment), stockPoint.price)
                          ELSE totalShares
             newInvested == IF buys THEN Num(monthlyInvestment) ELSE totalInvested
             currentValue == FMul(newShares, stockPoint.price)
             profit == FSub(currentValue, newInvested)
             profitPercent == IF FGt(newInvested, Num(0))
                              THEN FMul(FDiv(profit, newInvested), Num(100))
                              ELSE Num(0)
         IN <<[date |-> stockPoint.date, month |-> monthKey,
               stockPrice |-> stockPoint.price,
               monthlyInvestment |-> monthlyInvestment,
               totalInvested |-> newInvested, currentValue |-> currentValue,
               profit |-> profit, profitPercent |-> profitPercent,
               shares |-> newShares]>>
            \o LedgerWalkNoAccumulate(stockPrices, i + 1, monthlyData, newInvested, newShares)

RECURSIVE LedgerWalk(_, _, _, _, _)
\* stockPrices.forEach(stockPoint => { ... simulationData.push({...}) })
LedgerWalk(stockPrices, i, monthlyData, totalInvested, totalShares) ==
    IF i > Len(stockPrices) THEN <<>>
    ELSE LET stockPoint == stockPrices[i]
             monthKey == MonthKey(stockPoint.date)
             monthlyInvestment == MonthlyInvestment(monthlyData, monthKey)
             buys == monthlyInvestment > 0
             newShares == IF buys
                          THEN FAdd(totalShares,
                                    FDiv(Num(monthlyInvestment), stockPoint.price))
                          ELSE totalShares
             newInvested == IF buys THEN FAdd(totalInvested, Num(monthlyInvestment))
                            ELSE totalInvested
             currentValue == FMul(newShares, stockPoint.price)
             profit == FSub(currentValue, newInvested)
             profitPercent == IF FGt(newInvested, Num(0))
                              THEN FMul(FDiv(profit, newInvested), Num(100))
                              ELSE Num(0)
         IN <<[date |-> stockPoint.date, month |-> monthKey,
               stockPrice |-> stockPoint.price,
               monthlyInvestment |-> monthlyInvestment,
               totalInvested |-> newInvested, currentValue |-> currentValue,
               profit |-> profit, profitPercent |-> profitPercent,
               shares |-> newShares]>>
            \o LedgerWalk(stockPrices, i + 1, monthlyData, newInvested, newShares)

\* simulationData of one render of InvestmentSimulation
SimulationData(ts, monthlyData) ==
    LedgerWalk(SortedData(ts), 1, monthlyData, Num(0), Num(0))

NoChart == Chart(<<>>, <<>>, <<>>)

\* labels and chartData of one render of InvestmentSimulation
LedgerChart(simulationData, west) ==
    Chart(LabelsOf(FilterEvery(simulationData, 1, LedgerChartStep), west),
          [k \in 1..Len(FilterEvery(simulationData, 1, LedgerChartStep)) |->
              FilterEvery(simulationData, 1, LedgerChartStep)[k].totalInvested],
          [k \in 1..Len(FilterEvery(simulationData, 1, LedgerChartStep)) |->
              FilterEvery(simulationData, 1, LedgerChartStep)[k].currentValue])

(***************************************************************************)
(* The monthly aggregation of the expense records: the GET handler of the  *)
(* expenses route and convertToMonthlyInvestmentData of the invest page.   *)
(* A record is {category, amount, date}; its identity is its position in   *)
(* the list.  "investment-ja" stands for the category written in Japanese. *)
(***************************************************************************)
Categories == {"investment", "investment-ja", "food"}
ExpenseAmounts == {1000, 2000}
ExpenseRecords == {[category |-> c, amount |-> a, date |-> d] :
                   c \in Categories, a \in ExpenseAmounts, d \in Dates}
ExpenseLists == UNION {[1..n -> ExpenseRecords] : n \in 0..MaxExpenses}

\* `${date.getFullYear()}-${String(date.getMonth() + 1).padStart(2, '0')}` of
\* new Date(expense.date): the month of the local date, which is the day
\* before the record's date where the local clock is behind the zone the
\* date was written in (UTC for a date-only string).
LocalMonthKey(date, behind) == IF behind /\ date.day = 1 THEN date.ym - 1 ELSE date.ym

\* parseInt(expense.amount), the amount being an integer (INT column)
parseInt(a) == a

\* the positions of the records the filter keeps
Positions(expenses) == [i \in 1..Len(expenses) |-> i]
\* allExpenses.filter(expense => expense.category === 'investment')
RouteFilter(expenses) ==
    SelectSeq(Positions(expenses), LAMBDA i : expenses[i].category = "investment")
\* rawExpenseData.filter(expense => expense.category === 'investment' ||
\*                                  expense.category === (Japanese for investment))
ConvertFilter(expenses) ==
    SelectSeq(Positions(expenses),
              LAMBDA i : expenses[i].category \in {"investment", "investment-ja"})

\* if (!acc[monthKey]) acc[monthKey] = {month, totalAmount: 0, transactions: []};
\* acc[monthKey].totalAmount += amount; acc[monthKey].transactions.push(expense)
AddToMonth(acc, monthKey, amount, i) ==
    IF \E k \in 1..Len(acc) : acc[k].month = monthKey
    THEN LET k == CHOOSE k \in 1..Len(acc) : acc[k].month = monthKey
         IN [acc EXCEPT ![k] = [month |-> monthKey,
                                totalAmount |-> acc[k].totalAmount + amount,
                                transactions |-> Append(acc[k].transactions, i)]]
    ELSE Append(acc, [month |-> monthKey, totalAmount |-> amount,
                      transactions |-> <<i>>])

RECURSIVE monthlyInvestments(_, _, _, _, _)
\* investmentExpenses.reduce((acc, expense) => { ... }, {}), from position n of
\* the kept records on; the groups in the order their keys were created
monthlyInvestments(expenses, kept, n, acc, behind) ==
    IF n > Len(kept) THEN acc
    ELSE monthlyInvestments(expenses, kept, n + 1,
             AddToMonth(acc, LocalMonthKey(expenses[kept[n]].date, behind),
                        parseInt(expenses[kept[n]].amount), kept[n]),
             behind)

RECURSIVE InsertByMonth(_, _)
InsertByMonth(sq, g) ==
    IF sq = <<>> THEN <<g>>
    ELSE IF g.month < Head(sq).month THEN <<g>> \o sq
    ELSE <<Head(sq)>> \o InsertByMonth(Tail(sq), g)

RECURSIVE sortedMonthlyData(_)
\* Object.values(monthlyInvestments).sort((a, b) => new Date(a.month) - new Date(b.month))
sortedMonthlyData(groups) ==
    IF groups = <<>> THEN <<>>
    ELSE InsertByMonth(sortedMonthlyData(SubSeq(groups, 1, Len(groups) - 1)),
                       groups[Len(groups)])

RECURSIVE SumAmounts(_, _, _)
\* investmentExpenses.reduce((sum, expense) => sum + parseInt(expense.amount), 0)
SumAmounts(expenses, kept, n) ==
    IF n > Len(kept) THEN 0
    ELSE parseInt(expenses[kept[n]].amount) + SumAmounts(expenses, kept, n + 1)

RECURSIVE SumTotals(_, _)
\* monthlyData.reduce((sum, month) => sum + month.totalAmount, 0)
SumTotals(groups, n) ==
    IF n > Len(groups) THEN 0 ELSE groups[n].totalAmount + SumTotals(groups, n + 1)

NoAggregate == [by |-> "none", isNull |-> TRUE, monthlyData |-> <<>>, totalAmount |-> 0]

\* The body of the route's GET: Response.json({success, totalInvestments,
\* monthlyData, totalAmount})
GET(allExpenses, behind) ==
    LET investmentExpenses == RouteFilter(allExpenses)
    IN [by |-> "GET", isNull |-> FALSE,
        monthlyData |-> sortedMonthlyData(
            monthlyInvestments(allExpenses, investmentExpenses, 1, <<>>, behind)),
        totalAmount |-> SumAmounts(allExpenses, investmentExpenses, 1)]

\* convertToMonthlyInvestmentData(rawExpenseData): null when no record is kept
convertToMonthlyInvestmentData(rawExpenseData, behind) ==
    LET investmentExpenses == ConvertFilter(rawExpenseData)
        monthlyData == sortedMonthlyData(
            monthlyInvestments(rawExpenseData, investmentExpenses, 1, <<>>, behind))
    IN IF Len(investmentExpenses) = 0
       THEN [NoAggregate EXCEPT !.by = "convertToMonthlyInvestmentData"]
       ELSE [by |-> "convertToMonthlyInvestmentData", isNull |-> FALSE,
             monthlyData |-> monthlyData,
             totalAmount |-> SumTotals(monthlyData, 1)]

(***************************************************************************)
(* Gateway data.                                                           *)
(***************************************************************************)
NoEntry == [kind |-> "none"]
NoData == [kind |-> "none"]
NoResp == [status |-> 0, data |-> NoData, cached |-> FALSE, fetchedAt |-> -1,
           error |-> "none"]
\* res.json({ data, cached: true, fetchedAt })
ResHit(d, t) == [NoResp EXCEPT !.status = 200, !.data = d, !.cached = TRUE,
                                !.fetchedAt = t]
\* res.json({ data: apiData, cached: false })
ResLive(d) == [NoResp EXCEPT !.status = 200, !.data = d]
\* res.status(500).json({ error: error.message })
ResError(m) == [NoResp EXCEPT !.status = 500, !.error = m]

\* What the upstream call can produce: fetch() rejects, response.json()
\* rejects, or a JSON document that is one of: an "Error Message" payload, a
\* "Note" (rate-limit) payload, a document with neither those fields nor the
\* "Monthly Time Series" key, or a valid series.
SeriesPayloads == {[kind |-> "series", id |-> i] : i \in 1..NumSeries}
ErrorPayloads == {[kind |-> "Error Message"], [kind |-> "Note"]}
MalformedPayloads == {[kind |-> "Information"]}
JsonPayloads == SeriesPayloads \cup ErrorPayloads \cup MalformedPayloads
Outcomes == {[ok |-> FALSE, why |-> "network"], [ok |-> FALSE, why |-> "parse"]}
            \cup {[ok |-> TRUE, json |-> j] : j \in JsonPayloads}

\* JSON.stringify(apiData) as stored in the data column, and the read side
\* typeof data === "string" ? JSON.parse(data) : data
JSONstringify(j) == [text |-> j]
JSONparse(s) == s.text
IsString(d) == "text" \in DOMAIN d
Deserialize(d) == IF IsString(d) THEN JSONparse(d) ELSE d

VARIABLES now, cache, req, lastDone,
          table,              \* stock_cache as the MySQL version of the handler keeps it
          stockData,          \* the "Monthly Time Series" prop of both components
          investmentAmount, yearsAgo, investmentType, simulationResult,
          env,                \* the browser's date and time zone
          mounted,            \* the simulator's first effect has run
          monthlyData,        \* expenseData.monthlyData
          simulationData, rendered,
          chartData,          \* the chart arrays of the ledger component
          allExpenses,        \* the expense records the aggregation receives
          behind,             \* the aggregating side's clock is behind the dates' zone
          aggregate,          \* what the aggregation returned
          kakeibo_data,       \* the rows of the table kakeibo_data
          apiResponse,        \* the last answer of an expense endpoint
          stockRes, expenseRes,   \* what the page's two fetch() calls produce
          fetchPc,            \* the position of the page's fetchData
          pageStockData,      \* the page's state stockData
          expenseData, isLoading

gwVars == <<now, cache, req, lastDone, table>>
simVars == <<investmentAmount, yearsAgo, investmentType, simulationResult, mounted>>
ledgerVars == <<monthlyData, simulationData, chartData, rendered>>
aggVars == <<allExpenses, behind, aggregate>>
expVars == <<kakeibo_data, apiResponse>>
pageVars == <<stockRes, expenseRes, fetchPc, pageStockData, expenseData, isLoading>>

\* what a step of one component leaves alone: the other components
outsideGateway == <<stockData, env, simVars, ledgerVars, aggVars, expVars, pageVars>>
outsideSimulator == <<stockData, env, gwVars, ledgerVars, aggVars, expVars, pageVars>>
outsideLedger == <<stockData, env, gwVars, simVars, aggVars, expVars, pageVars>>
outsideAggregation == <<stockData, env, gwVars, simVars, ledgerVars, expVars, pageVars>>
outsideExpenses == <<stockData, env, gwVars, simVars, ledgerVars, aggVars, pageVars>>
outsidePage == <<stockData, env, gwVars, simVars, ledgerVars, aggVars, expVars>>

\* req[r] is one in-flight invocation of the handler; lastDone is the most
\* recently answered call (its response, and bookkeeping used to state the
\* properties: solo = no other call was in flight while it ran, follows =
\* it began right after a solo answered call for the same symbol, ref = the
\* fetched_at of the row it served or wrote (the time of the answer when
\* there is no such row), got = what its upstream call produced, "none"
\* when it made no upstream call).
IdleReq == [pc |-> "idle", symbol |-> "SPY", apiData |-> NoData,
            solo |-> TRUE, follows |-> FALSE, at |-> 0]
NoCall == [symbol |-> "none", res |-> NoResp, solo |-> FALSE, follows |-> FALSE,
           ref |-> 0, got |-> "none"]

NoEnv == [ym |-> -1, west |-> FALSE]

\* useState(1000000), useState(5), useState('lump'), useState(null)
SimIdle ==
    /\ investmentAmount = InitialInvestmentAmount
    /\ yearsAgo = InitialYearsAgo
    /\ investmentType = "lump"
    /\ simulationResult = NoResult
    /\ mounted = FALSE

LedgerIdle ==
    /\ monthlyData = <<>>
    /\ simulationData = <<>>
    /\ chartData = NoChart
    /\ rendered = FALSE

\* no request answered yet by the expense endpoints, an empty table
NoApiResponse == [path |-> "none", user |-> "none", status |-> 0, rows |-> {}]
ExpensesIdle ==
    /\ kakeibo_data = {}
    /\ apiResponse = NoApiResponse

\* useState(null), useState(null), useState(true); fetchData not yet called
NoFetch == [kind |-> "none"]
Null == [kind |-> "null"]
PageIdle ==
    /\ stockRes = NoFetch
    /\ expenseRes = NoFetch
    /\ fetchPc = "idle"
    /\ pageStockData = Null
    /\ expenseData = Null
    /\ isLoading = TRUE

AggregationIdle ==
    /\ allExpenses = <<>>
    /\ behind = FALSE
    /\ aggregate = NoAggregate

\* The MySQL version's table: its rows in insertion order, and whether its
\* schema (not part of the sources) declares symbol a unique key.
NoTable == [unique |-> FALSE, rows |-> <<>>]

GatewayIdle ==
    /\ now = 0
    /\ table = NoTable
    /\ cache = [s \in Symbols |-> NoEntry]
    /\ req = [r \in Reqs |-> IdleReq]
    /\ lastDone = NoCall

GatewayInit ==
    /\ GatewayIdle
    /\ stockData = <<>>
    /\ env = NoEnv
    /\ SimIdle
    /\ LedgerIdle
    /\ AggregationIdle
    /\ ExpensesIdle
    /\ PageIdle

\* (mutant) the comparison made inclusive: fetched_at >= NOW() - INTERVAL '24 hours'
FreshRowsInclusive(s) ==
    IF cache[s] # NoEntry /\ cache[s].fetched_at >= now - CACHE_EXPIRY_HOURS
    THEN <<cache[s]>> ELSE <<>>

\* SELECT data, fetched_at FROM stock_cache WHERE symbol = $1
\*   AND fetched_at > NOW() - INTERVAL '24 hours' ORDER BY ... LIMIT 1
FreshRows(s) ==
    IF cache[s] # NoEntry /\ cache[s].fetched_at > now - CACHE_EXPIRY_HOURS
    THEN <<cache[s]>> ELSE <<>>

Active(r) == req[r].pc # "idle"
NoneActive == \A q \in Reqs : ~Active(q)

Done(rq, res, ref, got) ==
    [symbol |-> rq.symbol, res |-> res, solo |-> rq.solo,
     follows |-> rq.follows, ref |-> ref, got |-> got]

\* A call that starts while others are in flight makes them not solo.
Started(r, rq) == [q \in Reqs |-> IF q = r THEN rq
                                  ELSE [req[q] EXCEPT !.solo = ~Active(q)]]

\* The handler up to its first continuation: the cache query and, on a hit,
\* the response; on a miss the upstream request is sent.
Lookup(r, s) ==
    /\ ~Active(r)
    /\ LET cached == FreshRows(s)
           base == [IdleReq EXCEPT !.symbol = s,
                       !.solo = \A q \in Reqs \ {r} : ~Active(q),
                       !.follows = /\ NoneActive
                                   /\ lastDone.symbol = s
                                   /\ lastDone.solo]
       IN IF Len(cached) > 0
          THEN /\ req' = Started(r, IdleReq)
               /\ lastDone' = Done(base,
                                   ResHit(Deserialize(cached[1].data),
                                          cached[1].fetched_at),
                                   cached[1].fetched_at, "none")
          ELSE /\ req' = Started(r, [base EXCEPT !.pc = "fetching"])
               /\ UNCHANGED lastDone
    /\ UNCHANGED <<now, cache, table, outsideGateway>>

\* error.message of what the try block throws
ErrorMessageOf(o) == IF ~o.ok THEN o.why ELSE o.json.kind

\* if (apiData["Error Message"] || apiData["Note"]) throw ...
Throws(o) == ~o.ok \/ o.json \in ErrorPayloads

\* await fetch(apiUrl); await response.json(); the error check; then either
\* the throw, which the catch block answers with status 500, or the INSERT
\* is sent to the database.
FetchReturn(r, o) ==
    /\ req[r].pc = "fetching"
    /\ IF Throws(o)
       THEN /\ req' = [req EXCEPT ![r] = IdleReq]
            /\ lastDone' = Done(req[r], ResError(ErrorMessageOf(o)), now,
                                ErrorMessageOf(o))
       ELSE /\ req' = [req EXCEPT ![r] = [@ EXCEPT !.pc = "upserting",
                                                   !.apiData = o.json]]
            /\ UNCHANGED lastDone
    /\ UNCHANGED <<now, cache, table, outsideGateway>>

\* (mutant) DO UPDATE SET data only: a conflicting row keeps its fetched_at
UpsertRowKeepsTime(c, s, d, t) ==
    [c EXCEPT ![s] = [data |-> d,
                      fetched_at |-> IF c[s] # NoEntry THEN c[s].fetched_at ELSE t]]

\* INSERT INTO stock_cache (symbol, data, fetched_at) VALUES ($1, $2, NOW())
\* ON CONFLICT (symbol) DO UPDATE SET data = EXCLUDED.data, fetched_at = ...
UpsertRow(c, s, d, t) == [c EXCEPT ![s] = [data |-> d, fetched_at |-> t]]

Upsert(r) ==
    /\ req[r].pc = "upserting"
    /\ cache' = UpsertRow(cache, req[r].symbol, JSONstringify(req[r].apiData), now)
    /\ req' = [req EXCEPT ![r] = [@ EXCEPT !.pc = "responding", !.at = now]]
    /\ UNCHANGED <<now, lastDone, table, outsideGateway>>

\* res.json({ data: apiData, cached: false })
Respond(r) ==
    /\ req[r].pc = "responding"
    /\ req' = [req EXCEPT ![r] = IdleReq]
    /\ lastDone' = Done(req[r], ResLive(req[r].apiData), req[r].at,
                        req[r].apiData.kind)
    /\ UNCHANGED <<now, cache, table, outsideGateway>>

\* The passage of time between any two steps.
Tick ==
    /\ \E d \in TickSteps : now + d <= MaxTime /\ now' = now + d
    /\ UNCHANGED <<cache, req, lastDone, table, outsideGateway>>

\* One call at a time (each step of the handler still interleaves with
\* the clock).
GatewayNext ==
    \/ \E s \in Symbols : Lookup(1, s)
    \/ \E o \in Outcomes : FetchReturn(1, o)
    \/ Upsert(1)
    \/ Respond(1)
    \/ Tick

\* Calls in flight together: every step of one interleaves with the others'.
RaceNext ==
    \/ \E r \in Reqs, s \in Symbols : Lookup(r, s)
    \/ \E r \in Reqs, o \in Outcomes : FetchReturn(r, o)
    \/ \E r \in Reqs : Upsert(r)
    \/ \E r \in Reqs : Respond(r)
    \/ Tick

(***************************************************************************)
(* The MySQL version of the handler (server.js, second half): the same     *)
(* steps, over a table that is read with ORDER BY fetched_at DESC LIMIT 1  *)
(* and written with a plain INSERT.                                        *)
(***************************************************************************)
RowsOf(s) == SelectSeq(table.rows, LAMBDA row : row.symbol = s)

\* WHERE symbol = ? AND fetched_at > DATE_SUB(NOW(), INTERVAL ? HOUR)
MySqlFreshRows(s) ==
    SelectSeq(table.rows, LAMBDA row : /\ row.symbol = s
                                       /\ row.fetched_at > now - CACHE_EXPIRY_HOURS)

\* ORDER BY fetched_at DESC LIMIT 1: a row no other selected row is newer than
Newest(rows) ==
    {i \in 1..Len(rows) : \A j \in 1..Len(rows) : rows[j].fetched_at <= rows[i].fetched_at}

\* The cache query and, on a hit, res.json({ data: cachedData.data, cached:
\* true, fetchedAt }); on a miss the upstream request is sent.
MySqlLookup(r, s) ==
    /\ ~Active(r)
    /\ LET cached == MySqlFreshRows(s)
           base == [IdleReq EXCEPT !.symbol = s,
                       !.solo = \A q \in Reqs \ {r} : ~Active(q),
                       !.follows = /\ NoneActive
                                   /\ lastDone.symbol = s
                                   /\ lastDone.solo]
       IN IF Len(cached) > 0
          THEN /\ req' = Started(r, IdleReq)
               /\ \E i \in Newest(cached) :
                    lastDone' = Done(base, ResHit(cached[i].data, cached[i].fetched_at),
                                     cached[i].fetched_at, "none")
          ELSE /\ req' = Started(r, [base EXCEPT !.pc = "fetching"])
               /\ UNCHANGED lastDone
    /\ UNCHANGED <<now, cache, table, outsideGateway>>

\* (mutant) the write of the PostgreSQL version: the row of the symbol replaced
InsertRowOnConflictUpdate(t, s, d, at) ==
    [t EXCEPT !.rows = SelectSeq(t.rows, LAMBDA row : row.symbol # s)
                       \o <<[symbol |-> s, data |-> d, fetched_at |-> at]>>]

\* INSERT INTO stock_cache (symbol, data) VALUES (?, ?), fetched_at taking
\* the column's default (the time of the insert)
InsertRow(t, s, d, at) ==
    [t EXCEPT !.rows = Append(t.rows, [symbol |-> s, data |-> d, fetched_at |-> at])]

\* The INSERT as the database executes it: under a unique key on symbol a
\* second row for the symbol is rejected, the promise rejects and the catch
\* block answers 500.
MySqlInsert(r) ==
    /\ req[r].pc = "upserting"
    /\ IF table.unique /\ Len(RowsOf(req[r].symbol)) > 0
       THEN /\ req' = [req EXCEPT ![r] = IdleReq]
            /\ lastDone' = Done(req[r], ResError("ER_DUP_ENTRY"), now,
                                req[r].apiData.kind)
            /\ UNCHANGED table
       ELSE /\ table' = InsertRow(table, req[r].symbol,
                                  JSONstringify(req[r].apiData), now)
            /\ req' = [req EXCEPT ![r] = [@ EXCEPT !.pc = "responding", !.at = now]]
            /\ UNCHANGED lastDone
    /\ UNCHANGED <<now, cache, outsideGateway>>

MySqlInit ==
    /\ now = 0
    /\ cache = [s \in Symbols |-> NoEntry]
    /\ req = [r \in Reqs |-> IdleReq]
    /\ lastDone = NoCall
    /\ table \in {[unique |-> u, rows |-> <<>>] : u \in BOOLEAN}
    /\ stockData = <<>>
    /\ env = NoEnv
    /\ SimIdle
    /\ LedgerIdle
    /\ AggregationIdle
    /\ ExpensesIdle
    /\ PageIdle

\* One call at a time.
MySqlNext ==
    \/ \E s \in Symbols : MySqlLookup(1, s)
    \/ \E o \in Outcomes : FetchReturn(1, o)
    \/ MySqlInsert(1)
    \/ Respond(1)
    \/ Tick

\* Calls for one symbol in flight together.
MySqlRaceNext ==
    \/ \E r \in Reqs : MySqlLookup(r, "SPY")
    \/ \E r \in Reqs, o \in Outcomes : FetchReturn(r, o)
    \/ \E r \in Reqs : MySqlInsert(r)
    \/ \E r \in Reqs : Respond(r)
    \/ Tick

(***************************************************************************)
(* The simulator component: each setter is followed by the effect that     *)
(* re-runs calculateSimulation on the new state.                           *)
(***************************************************************************)
Amounts == {0, 10000, InitialInvestmentAmount}
Years == {0, 1, InitialYearsAgo}

\* useEffect(() => { if (stockData && stockData["Monthly Time Series"])
\*     calculateSimulation(); }, [investmentAmount, yearsAgo, investmentType, stockData])
Effect(amount, years, type) ==
    LET result == calculateSimulation(stockData, amount, years, type, env)
    IN simulationResult' = IF result = NoResult THEN simulationResult ELSE result

\* the effect of the first render
Mount ==
    /\ ~mounted
    /\ mounted' = TRUE
    /\ Effect(investmentAmount, yearsAgo, investmentType)
    /\ UNCHANGED <<investmentAmount, yearsAgo, investmentType, outsideSimulator>>

\* onChange={(e) => setInvestmentAmount(parseInt(e.target.value))}
SetInvestmentAmount(a) ==
    /\ mounted
    /\ a # investmentAmount
    /\ investmentAmount' = a
    /\ Effect(a, yearsAgo, investmentType)
    /\ UNCHANGED <<yearsAgo, investmentType, mounted, outsideSimulator>>

\* onChange={(e) => setYearsAgo(parseInt(e.target.value))}
SetYearsAgo(y) ==
    /\ mounted
    /\ y # yearsAgo
    /\ yearsAgo' = y
    /\ Effect(investmentAmount, y, investmentType)
    /\ UNCHANGED <<investmentAmount, investmentType, mounted, outsideSimulator>>

\* onClick={() => setInvestmentType('lump')} / setInvestmentType('monthly')
SetInvestmentType(t) ==
    /\ mounted
    /\ t # investmentType
    /\ investmentType' = t
    /\ Effect(investmentAmount, yearsAgo, t)
    /\ UNCHANGED <<investmentAmount, yearsAgo, mounted, outsideSimulator>>

SimInit ==
    /\ GatewayIdle
    /\ stockData \in TimeSeries
    /\ env \in Envs
    /\ SimIdle
    /\ LedgerIdle
    /\ AggregationIdle
    /\ ExpensesIdle
    /\ PageIdle

SimNext ==
    \/ Mount
    \/ \E a \in Amounts : SetInvestmentAmount(a)
    \/ \E y \in Years : SetYearsAgo(y)
    \/ \E t \in {"lump", "monthly"} : SetInvestmentType(t)

(***************************************************************************)
(* The ledger component: one render computes simulationData from its props.*)
(***************************************************************************)
RenderLedger ==
    /\ ~rendered
    /\ simulationData' = SimulationData(stockData, monthlyData)
    /\ chartData' = LedgerChart(SimulationData(stockData, monthlyData), env.west)
    /\ rendered' = TRUE
    /\ UNCHANGED <<monthlyData, outsideLedger>>

LedgerInit ==
    /\ GatewayIdle
    /\ stockData \in TimeSeries
    /\ env = NoEnv
    /\ SimIdle
    /\ monthlyData \in MonthlyDatas
    /\ simulationData = <<>>
    /\ chartData = NoChart
    /\ rendered = FALSE
    /\ AggregationIdle
    /\ ExpensesIdle
    /\ PageIdle

LedgerNext == RenderLedger

(***************************************************************************)
(* The aggregation: one call of either aggregator on the received list.    *)
(***************************************************************************)
RouteGET ==
    /\ aggregate = NoAggregate
    /\ aggregate' = GET(allExpenses, behind)
    /\ UNCHANGED <<allExpenses, behind, outsideAggregation>>

ConvertToMonthly ==
    /\ aggregate = NoAggregate
    /\ aggregate' = convertToMonthlyInvestmentData(allExpenses, behind)
    /\ UNCHANGED <<allExpenses, behind, outsideAggregation>>

AggregationInit ==
    /\ GatewayIdle
    /\ stockData = <<>>
    /\ env = NoEnv
    /\ SimIdle
    /\ LedgerIdle
    /\ allExpenses \in ExpenseLists
    /\ behind \in BOOLEAN
    /\ aggregate = NoAggregate
    /\ ExpensesIdle
    /\ PageIdle

AggregationNext == RouteGET \/ ConvertToMonthly

(***************************************************************************)
(* The expense endpoints.  A row of kakeibo_data is {id, user_id,          *)
(* category}; a request comes from a logged-in user or from nobody.        *)
(***************************************************************************)
Users == {"alice", "bob"}
NoUser == "none"
Requesters == Users \cup {NoUser}
RowCategories == {"investment", "food"}
RowIds == 1..MaxExpenses
\* the tables the session version's inserts produce (a row inserted by the
\* handler that does not set user_id has user_id NULL)
KakeiboTables ==
    {t \in SUBSET [id : RowIds, user_id : Users, category : RowCategories] :
        \A a, b \in t : a.id = b.id => a = b}
\* the id the sequence gives the next inserted row
NextId == IF kakeibo_data = {} THEN 1
          ELSE (CHOOSE i \in {row.id : row \in kakeibo_data} :
                   \A row \in kakeibo_data : row.id <= i) + 1

\* the answer of the endpoint at path to a request of u
ApiResponse(path, u, status, rows) ==
    [path |-> path, user |-> u, status |-> status, rows |-> rows]

\* app.get("/api/kakeibo"): SELECT * FROM kakeibo_data ORDER BY date DESC
GetKakeibo(u) ==
    /\ apiResponse' = ApiResponse("GET /api/kakeibo", u, 200, kakeibo_data)
    /\ UNCHANGED <<kakeibo_data, outsideExpenses>>

\* app.post("/api/kakeibo"): INSERT INTO kakeibo_data (title, category, amount, date)
PostKakeibo(u, category, complete) ==
    /\ IF ~complete
       THEN /\ apiResponse' = ApiResponse("POST /api/kakeibo", u, 400, {})
            /\ UNCHANGED kakeibo_data
       ELSE /\ NextId \in RowIds
            /\ kakeibo_data' = kakeibo_data \cup
                   {[id |-> NextId, user_id |-> "NULL", category |-> category]}
            /\ apiResponse' = ApiResponse("POST /api/kakeibo", u, 200, {})
    /\ UNCHANGED outsideExpenses

\* app.delete("/api/kakeibo/:id"): DELETE FROM kakeibo_data WHERE id = $1
DeleteKakeibo(u, id) ==
    /\ LET deleted == {row \in kakeibo_data : row.id = id}
       IN /\ kakeibo_data' = kakeibo_data \ deleted
          /\ apiResponse' = ApiResponse("DELETE /api/kakeibo/:id", u, IF deleted = {} THEN 404 ELSE 200, {})
    /\ UNCHANGED outsideExpenses

\* app.get("/expenses"): SELECT * FROM kakeibo_data ORDER BY date DESC
GetExpenses(u) ==
    /\ apiResponse' = ApiResponse("GET /expenses", u, 200, kakeibo_data)
    /\ UNCHANGED <<kakeibo_data, outsideExpenses>>

\* app.get("/expenses/investment"): ... WHERE category = 'investment'
GetExpensesInvestment(u) ==
    /\ apiResponse' = ApiResponse("GET /expenses/investment", u, 200,
                                  {row \in kakeibo_data : row.category = "investment"})
    /\ UNCHANGED <<kakeibo_data, outsideExpenses>>

ExpensesInit ==
    /\ GatewayIdle
    /\ stockData = <<>>
    /\ env = NoEnv
    /\ SimIdle
    /\ LedgerIdle
    /\ AggregationIdle
    /\ kakeibo_data \in KakeiboTables
    /\ apiResponse = NoApiResponse
    /\ PageIdle

ExpensesNext ==
    \/ \E u \in Requesters : GetKakeibo(u)
    \/ \E u \in Requesters, c \in RowCategories, ok \in BOOLEAN : PostKakeibo(u, c, ok)
    \/ \E u \in Requesters, id \in RowIds : DeleteKakeibo(u, id)
    \/ \E u \in Requesters : GetExpenses(u)
    \/ \E u \in Requesters : GetExpensesInvestment(u)

(***************************************************************************)
(* The expense endpoints of the session version of the server: every       *)
(* handler behind requireAuth, every query scoped by req.session.user.id.  *)
(***************************************************************************)
\* requireAuth: if (!req.session.user) return res.status(401).json(...)
requireAuth(u) == u # NoUser
Unauthorized(path, u) ==
    /\ apiResponse' = ApiResponse(path, u, 401, {})
    /\ UNCHANGED kakeibo_data
OwnedBy(u) == {row \in kakeibo_data : row.user_id = u}

SessionGetKakeibo(u) ==
    /\ IF ~requireAuth(u) THEN Unauthorized("GET /api/kakeibo", u)
       ELSE /\ apiResponse' = ApiResponse("GET /api/kakeibo", u, 200, OwnedBy(u))
            /\ UNCHANGED kakeibo_data
    /\ UNCHANGED outsideExpenses

SessionPostKakeibo(u, category, complete) ==
    /\ IF ~requireAuth(u) THEN Unauthorized("POST /api/kakeibo", u)
       ELSE IF ~complete
       THEN /\ apiResponse' = ApiResponse("POST /api/kakeibo", u, 400, {})
            /\ UNCHANGED kakeibo_data
       ELSE /\ NextId \in RowIds
            /\ kakeibo_data' = kakeibo_data \cup
                   {[id |-> NextId, user_id |-> u, category |-> category]}
            /\ apiResponse' = ApiResponse("POST /api/kakeibo", u, 200, {})
    /\ UNCHANGED outsideExpenses

SessionDeleteKakeibo(u, id) ==
    /\ IF ~requireAuth(u) THEN Unauthorized("DELETE /api/kakeibo/:id", u)
       ELSE LET deleted == {row \in OwnedBy(u) : row.id = id}
            IN /\ kakeibo_data' = kakeibo_data \ deleted
               /\ apiResponse' = ApiResponse("DELETE /api/kakeibo/:id", u, IF deleted = {} THEN 404 ELSE 200, {})
    /\ UNCHANGED outsideExpenses

SessionGetExpenses(u) ==
    /\ IF ~requireAuth(u) THEN Unauthorized("GET /expenses", u)
       ELSE /\ apiResponse' = ApiResponse("GET /expenses", u, 200, OwnedBy(u))
            /\ UNCHANGED kakeibo_data
    /\ UNCHANGED outsideExpenses

SessionGetExpensesInvestment(u) ==
    /\ IF ~requireAuth(u) THEN Unauthorized("GET /expenses/investment", u)
       ELSE /\ apiResponse' = ApiResponse("GET /expenses/investment", u, 200,
                                          {row \in OwnedBy(u) : row.category = "investment"})
            /\ UNCHANGED kakeibo_data
    /\ UNCHANGED outsideExpenses

SessionExpensesNext ==
    \/ \E u \in Requesters : SessionGetKakeibo(u)
    \/ \E u \in Requesters, c \in RowCategories, ok \in BOOLEAN : SessionPostKakeibo(u, c, ok)
    \/ \E u \in Requesters, id \in RowIds : SessionDeleteKakeibo(u, id)
    \/ \E u \in Requesters : SessionGetExpenses(u)
    \/ \E u \in Requesters : SessionGetExpensesInvestment(u)

(***************************************************************************)
(* The invest page: fetchData of the mount effect.  fetch() either rejects *)
(* or gives a response with its ok flag and a body, which is JSON with or  *)
(* without an error field, or does not parse.                              *)
(***************************************************************************)
Rejected == [kind |-> "rejected"]
Unparsable == [kind |-> "unparsable"]
ErrorBody == [kind |-> "json", error |-> TRUE, id |-> 0]
JsonBodies == {[kind |-> "json", error |-> FALSE, id |-> i] : i \in 1..NumSeries}
Bodies == JsonBodies \cup {ErrorBody, Unparsable}
Fetches == {Rejected} \cup {[kind |-> "response", ok |-> o, body |-> b] :
                               o \in BOOLEAN, b \in Bodies}
\* { error: err.message }
ErrorObject == [kind |-> "json", error |-> TRUE, id |-> -1]

\* useEffect(() => { setIsMounted(true); ...; fetchData(); }, [])
FetchData ==
    /\ fetchPc = "idle"
    /\ fetchPc' = "awaiting"
    /\ UNCHANGED <<stockRes, expenseRes, pageStockData, expenseData, isLoading, outsidePage>>

\* const [stockRes, expenseRes] = await Promise.all([fetch(...), fetch(...)])
PromiseAll(s, e) ==
    /\ fetchPc = "awaiting"
    /\ stockRes' = s
    /\ expenseRes' = e
    /\ fetchPc' = IF s = Rejected \/ e = Rejected THEN "catch" ELSE "stock"
    /\ UNCHANGED <<pageStockData, expenseData, isLoading, outsidePage>>

\* if (!stockRes.ok) throw ...; const stockData = await stockRes.json();
\* if (stockData.error) throw ...; setStockData(stockData);
\* if (expenseRes.ok) { ... } else { console.warn(...) }
ReadStock ==
    /\ fetchPc = "stock"
    /\ IF ~stockRes.ok \/ stockRes.body = Unparsable \/ stockRes.body.error
       THEN /\ fetchPc' = "catch"
            /\ UNCHANGED pageStockData
       ELSE /\ pageStockData' = stockRes.body
            /\ fetchPc' = IF expenseRes.ok THEN "expense" ELSE "finally"
    /\ UNCHANGED <<stockRes, expenseRes, expenseData, isLoading, outsidePage>>

\* const expenseData = await expenseRes.json();
\* if (!expenseData.error) setExpenseData(expenseData); else console.warn(...)
ReadExpense ==
    /\ fetchPc = "expense"
    /\ IF expenseRes.body = Unparsable
       THEN /\ fetchPc' = "catch"
            /\ UNCHANGED expenseData
       ELSE /\ expenseData' = IF expenseRes.body.error THEN expenseData
                              ELSE expenseRes.body
            /\ fetchPc' = "finally"
    /\ UNCHANGED <<stockRes, expenseRes, pageStockData, isLoading, outsidePage>>

\* (mutant) a catch block that leaves the function, the finally block not run
CatchWithoutFinally ==
    /\ fetchPc = "catch"
    /\ pageStockData' = ErrorObject
    /\ fetchPc' = "done"
    /\ UNCHANGED <<stockRes, expenseRes, expenseData, isLoading, outsidePage>>

\* catch (err) { setStockData({ error: err.message }); }
Catch ==
    /\ fetchPc = "catch"
    /\ pageStockData' = ErrorObject
    /\ fetchPc' = "finally"
    /\ UNCHANGED <<stockRes, expenseRes, expenseData, isLoading, outsidePage>>

\* finally { setIsLoading(false); }
Finally ==
    /\ fetchPc = "finally"
    /\ isLoading' = FALSE
    /\ fetchPc' = "done"
    /\ UNCHANGED <<stockRes, expenseRes, pageStockData, expenseData, outsidePage>>

PageInit ==
    /\ GatewayIdle
    /\ stockData = <<>>
    /\ env = NoEnv
    /\ SimIdle
    /\ LedgerIdle
    /\ AggregationIdle
    /\ ExpensesIdle
    /\ PageIdle

PageNext ==
    \/ FetchData
    \/ \E s \in Fetches, e \in Fetches : PromiseAll(s, e)
    \/ ReadStock
    \/ ReadExpense
    \/ Catch
    \/ Finally

(***************************************************************************)
(* The two simulations on one series: the invest page passes the same      *)
(* stockData to the simulator and to the ledger component.                 *)
(***************************************************************************)
\* expenseData.monthlyData with every month of the series recorded
EveryMonthRecorded ==
    [k \in 1..(MaxMonth + 1) |->
        [month |-> k - 1, totalAmount |-> IF k % 2 = 1 THEN 1000 ELSE 2000]]

\* Series long enough for every chart to keep more than one entry: one point
\* a month, listed newest first.
ChartLen == MonthsPerYear + MaxLen
ChartSeries ==
    {[i \in 1..n |-> [date |-> [ym |-> n - i, day |-> d],
                      close |-> IF i % 2 = 0 THEN 3000000 ELSE 5000000]] :
        n \in 1..ChartLen, d \in 1..MaxDay}

ChartInit ==
    /\ GatewayIdle
    /\ stockData \in ChartSeries
    /\ env \in Envs
    /\ SimIdle
    /\ monthlyData = EveryMonthRecorded
    /\ simulationData = <<>>
    /\ chartData = NoChart
    /\ rendered = FALSE
    /\ AggregationIdle
    /\ ExpensesIdle
    /\ PageIdle

OrderInit ==
    /\ GatewayIdle
    /\ stockData \in TimeSeries
    /\ env \in Envs
    /\ SimIdle
    /\ monthlyData = EveryMonthRecorded
    /\ simulationData = <<>>
    /\ chartData = NoChart
    /\ rendered = FALSE
    /\ AggregationIdle
    /\ ExpensesIdle
    /\ PageIdle

OrderNext ==
    \/ Mount
    \/ \E y \in Years : SetYearsAgo(y)
    \/ \E t \in {"lump", "monthly"} : SetInvestmentType(t)
    \/ RenderLedger

vars == <<gwVars, stockData, env, simVars, ledgerVars, aggVars, expVars, pageVars>>

Spec == GatewayInit /\ [][GatewayNext]_vars
SpecRace == GatewayInit /\ [][RaceNext]_vars
SpecMySql == MySqlInit /\ [][MySqlNext]_vars
SpecMySqlRace == MySqlInit /\ [][MySqlRaceNext]_vars
SpecSim == SimInit /\ [][SimNext]_vars
SpecLedger == LedgerInit /\ [][LedgerNext]_vars
SpecOrder == OrderInit /\ [][OrderNext]_vars
SpecChart == ChartInit /\ [][OrderNext]_vars
SpecAggregation == AggregationInit /\ [][AggregationNext]_vars
\* fetchData runs on after each await that has settled: weak fairness of
\* its steps after the two requests
SpecPage == PageInit /\ [][PageNext]_vars
SpecPageLive ==
    /\ PageInit /\ [][PageNext]_vars
    /\ WF_vars(ReadStock) /\ WF_vars(ReadExpense) /\ WF_vars(Catch) /\ WF_vars(Finally)
SpecExpenses == ExpensesInit /\ [][ExpensesNext]_vars
SpecSessionExpenses == ExpensesInit /\ [][SessionExpensesNext]_vars

(***************************************************************************)
(* Properties of the gateway.                                              *)
(***************************************************************************)
RateLimited(o) == o.ok /\ o.json.kind = "Note"
UpstreamFailure(o) == ~o.ok \/ o.json.kind \in {"Note", "Error Message"}
Answered(r) == req'[r].pc = "idle"

\* C1: when the lookup missed, a row older than the TTL exists for the
\* symbol and the upstream answers with a rate-limit payload, the call is
\* answered with status 200 and the data of that row (the stale entry),
\* never with an error.
C1_StaleBeatsError ==
    [][\A o \in Outcomes :
         (FetchReturn(1, o) /\ RateLimited(o) /\ cache[req[1].symbol] # NoEntry)
         => /\ lastDone'.res.status = 200
            /\ lastDone'.res.data = Deserialize(cache[req[1].symbol].data)]_vars

\* C2: a call whose upstream fetch ended in a network failure, a parse
\* failure, a rate-limit payload or an error payload is still answered with
\* status 200 and a series.
C2_NoUpstreamFailureSurfaces ==
    lastDone.got \in {"network", "parse", "Note", "Error Message"}
    => lastDone.res.status = 200 /\ lastDone.res.data # NoData

\* C3: a call that begins right after an answered call for the
\* same symbol, less than 24 hours later, is answered at once from the cache
\* (no upstream call) with the data of the first answer.
C3_SecondCallCached ==
    [][\A s \in Symbols :
         (Lookup(1, s) /\ lastDone.symbol = s
            /\ now - lastDone.ref < CACHE_EXPIRY_HOURS)
         => /\ Answered(1)
            /\ lastDone'.got = "none"
            /\ lastDone'.res.cached = TRUE
            /\ lastDone'.res.data = lastDone.res.data]_vars

\* C4: when the upstream is unusable and the cache has no row at all for
\* the symbol, the call is answered with status 200 and a series, and that
\* series is stored in the cache for the symbol.
C4_SyntheticPersisted ==
    [][\A o \in Outcomes :
         (FetchReturn(1, o) /\ UpstreamFailure(o) /\ cache[req[1].symbol] = NoEntry)
         => /\ lastDone'.res.status = 200
            /\ lastDone'.res.data # NoData
            /\ cache'[req[1].symbol] # NoEntry]_vars

\* C5: a call that missed the cache and got a valid series from upstream is
\* answered with status 200, cached: false and that series, and (until a
\* later call writes again) the row of its symbol holds that series with
\* fetched_at = the time of the write.
C5_LiveFetchUpserts ==
    lastDone.got = "series"
    => /\ lastDone.res.status = 200
       /\ lastDone.res.cached = FALSE
       /\ lastDone.res.data \in SeriesPayloads
       /\ req[1].pc # "responding"
          => /\ cache[lastDone.symbol] # NoEntry
             /\ Deserialize(cache[lastDone.symbol].data) = lastDone.res.data
             /\ cache[lastDone.symbol].fetched_at = lastDone.ref

\* A live answer whose row was written later than time 0 over an older row.
C5_Witness ==
    /\ lastDone.got = "series"
    /\ lastDone.ref >= CACHE_EXPIRY_HOURS
    /\ req[1].pc = "idle"
    /\ cache[lastDone.symbol].fetched_at = lastDone.ref

(***************************************************************************)
(* Properties of the simulator.                                            *)
(***************************************************************************)
\* the close of the series entry dated date, and the latest date of a series
CloseOn(ts, date) == parseFloat(ts[CHOOSE i \in 1..Len(ts) : ts[i].date = date].close)
LatestDate(ts) ==
    CHOOSE d \in {ts[i].date : i \in 1..Len(ts)} :
        \A i \in 1..Len(ts) : ~DateBefore(d, ts[i].date)
Calculated == mounted /\ stockData # <<>>

PointsFromStart ==
    {i \in 1..Len(stockData) : ~DateBefore(stockData[i].date, simulationResult.startDate)}
OnePointPeriodic ==
    /\ Calculated /\ investmentType = "monthly"
    /\ Cardinality(PointsFromStart) = 1
SamePurchase(r, q) ==
    /\ r.shares = q.shares
    /\ r.investedAmount = q.investedAmount
    /\ r.currentValue = q.currentValue
    /\ r.profit = q.profit
    /\ r.profitPercent = q.profitPercent

\* C7 (as stated): with exactly one data point available from the start
\* date, the periodic result has the shares, invested amount, current value,
\* profit and profit percent of the lump sum of the whole budget on that
\* single point.
C7_OnePointPeriodicIsLumpSum ==
    OnePointPeriodic
    => LET i == CHOOSE k \in PointsFromStart : TRUE
       IN SamePurchase(simulationResult,
                       calculateSimulation(<<stockData[i]>>, investmentAmount,
                                           yearsAgo, "lump", env))

\* C7 (amended): with exactly one data point available from the start date
\* and yearsAgo >= 1, the periodic result is one purchase of one monthly
\* instalment m = budget / (yearsAgo * 12) at that point's close p:
\* shares = m / p, invested = m, currentValue = shares * p,
\* profit = currentValue - m, profitPercent = profit / m * 100 (0 when
\* m = 0); for a positive budget that is the lump sum of m on that point.
C7_OnePointPeriodicIsOneInstalment ==
    (OnePointPeriodic /\ yearsAgo >= 1)
    => LET i == CHOOSE k \in PointsFromStart : TRUE
           p == parseFloat(stockData[i].close)
           m == FDiv(Num(investmentAmount), Num(yearsAgo * MonthsPerYear))
           shares == FDiv(m, p)
           value == FMul(shares, p)
           profit == FSub(value, m)
       IN /\ simulationResult.shares = shares
          /\ simulationResult.investedAmount = m
          /\ simulationResult.currentValue = value
          /\ simulationResult.profit = profit
          /\ simulationResult.profitPercent =
                 IF investmentAmount > 0 THEN FMul(FDiv(profit, m), Num(100))
                 ELSE Num(0)
          /\ investmentAmount > 0
             => SamePurchase(simulationResult,
                             LumpSum(m, [date |-> stockData[i].date, price |-> p],
                                     [date |-> stockData[i].date, price |-> p],
                                     yearsAgo))

\* A periodic run whose start point is the last of several series points,
\* with a positive budget.
C7_Witness ==
    /\ OnePointPeriodic /\ yearsAgo = 1 /\ investmentAmount > 0
    /\ Len(stockData) > 1
    /\ simulationResult.investedAmount = Rat(investmentAmount, MonthsPerYear)

\* C8: for a non-empty series and a positive amount the lump-sum result has
\* shares = amount / startPrice, currentValue = shares * currentPrice,
\* profit = currentValue - amount, profitPercent = profit / amount * 100,
\* startPrice being the close at the result's start date and currentPrice
\* the close at the latest date of the series.
C8_LumpSumFormulas ==
    (Calculated /\ investmentType = "lump" /\ investmentAmount > 0)
    => LET amount == Num(investmentAmount)
           startPrice == CloseOn(stockData, simulationResult.startDate)
           currentPrice == CloseOn(stockData, LatestDate(stockData))
           shares == FDiv(amount, startPrice)
           currentValue == FMul(shares, currentPrice)
           profit == FSub(currentValue, amount)
       IN /\ simulationResult.startPrice = startPrice
          /\ simulationResult.currentPrice = currentPrice
          /\ simulationResult.shares = shares
          /\ simulationResult.currentValue = currentValue
          /\ simulationResult.profit = profit
          /\ simulationResult.profitPercent = FMul(FDiv(profit, amount), Num(100))

\* The spec's example: bought at 300, now 500, amount 10000: currentValue
\* 50000/3 = 16666.67, profit 20000/3, profitPercent 200/3 = 66.67.
C8_Witness ==
    /\ Calculated /\ investmentType = "lump" /\ investmentAmount = 10000
    /\ simulationResult.startPrice = Num(300)
    /\ simulationResult.currentPrice = Num(500)
    /\ simulationResult.shares = Rat(100, 3)
    /\ simulationResult.currentValue = Rat(50000, 3)
    /\ simulationResult.profit = Rat(20000, 3)
    /\ simulationResult.profitPercent = Rat(200, 3)

\* C9: with the amount (positive) and the start price of the result held
\* fixed, the lump sum at any strictly higher current price has a strictly
\* higher currentValue and a strictly higher profit.
C9_MonotonicInCurrentPrice ==
    (Calculated /\ investmentType = "lump" /\ investmentAmount > 0)
    => \A c \in Closes :
         FGt(parseFloat(c), simulationResult.currentPrice)
         => LET startPoint == [date |-> simulationResult.startDate,
                               price |-> simulationResult.startPrice]
                higher == LumpSum(Num(investmentAmount), startPoint,
                                  [date |-> LatestDate(stockData), price |-> parseFloat(c)],
                                  yearsAgo)
            IN /\ FGt(higher.currentValue, simulationResult.currentValue)
               /\ FGt(higher.profit, simulationResult.profit)

\* A lump-sum result at the lower close, bought at the higher one (a loss),
\* so that a strictly higher current price exists.
C9_Witness ==
    /\ Calculated /\ investmentType = "lump" /\ investmentAmount > 0
    /\ simulationResult.currentPrice = Num(300)
    /\ simulationResult.startPrice = Num(500)
    /\ FLt(simulationResult.profit, Num(0))

(***************************************************************************)
(* Properties of the ledger-reconciled simulation.                         *)
(***************************************************************************)
\* the amount the ledger records for a month, 0 when the month is absent
Recorded(ym) ==
    IF \E k \in 1..Len(monthlyData) : monthlyData[k].month = ym
    THEN monthlyData[CHOOSE k \in 1..Len(monthlyData) : monthlyData[k].month = ym].totalAmount
    ELSE 0
SharesBefore(i) == IF i = 1 THEN Num(0) ELSE simulationData[i - 1].shares
InvestedBefore(i) == IF i = 1 THEN Num(0) ELSE simulationData[i - 1].totalInvested

\* C10: a series point whose month has a recorded investment of zero, or no
\* ledger entry, leaves shares and totalInvested as they were after the
\* previous point; its valuation is that share count times its own close.
C10_ZeroMonthCarriesForward ==
    rendered
    => \A i \in 1..Len(simulationData) :
         Recorded(simulationData[i].date.ym) = 0
         => /\ simulationData[i].shares = SharesBefore(i)
            /\ simulationData[i].totalInvested = InvestedBefore(i)
            /\ simulationData[i].currentValue =
                   FMul(SharesBefore(i), CloseOn(stockData, simulationData[i].date))

\* Shares bought in one month, then a month recorded with amount zero at a
\* different close: the holdings stay and the valuation moves.
C10_Witness ==
    /\ rendered
    /\ \E i \in 2..Len(simulationData) :
         /\ \E k \in 1..Len(monthlyData) :
              /\ monthlyData[k].month = simulationData[i].date.ym
              /\ monthlyData[k].totalAmount = 0
         /\ FGt(simulationData[i - 1].shares, Num(0))
         /\ simulationData[i].shares = simulationData[i - 1].shares
         /\ simulationData[i].currentValue # simulationData[i - 1].currentValue
(***************************************************************************)
(* Properties of the cache store.                                          *)
(***************************************************************************)
\* C11: when a call that fetched a valid series writes it, the
\* table afterwards holds exactly one row for the symbol, and that row is
\* the series just fetched (a later fetch overwrites, never adds a second
\* row, and is never lost).
C11_LaterFetchOverwrites ==
    [][(MySqlInsert(1) /\ req[1].apiData \in SeriesPayloads)
       => RowsOf(req[1].symbol)' =
              <<[symbol |-> req[1].symbol, data |-> JSONstringify(req[1].apiData),
                 fetched_at |-> now]>>]_vars
\* a call that overlapped another one and holds a valid upstream series
Racing(r) == ~req[r].solo /\ req[r].apiData \in SeriesPayloads

\* C12: of calls for one symbol whose steps interleave, each one that got a
\* valid series from upstream is answered with status 200 and that series,
\* and right after each one's write the table holds exactly one row for the
\* symbol, the series just written (last write wins, no duplicate).
C12_RaceLastWriteWins ==
    [][\A r \in Reqs :
         /\ (Racing(r) /\ req[r].pc \in {"upserting", "responding"} /\ Answered(r))
            => lastDone'.res = ResLive(req[r].apiData)
         /\ (Racing(r) /\ MySqlInsert(r))
            => RowsOf(req[r].symbol)' =
                   <<[symbol |-> req[r].symbol,
                      data |-> JSONstringify(req[r].apiData),
                      fetched_at |-> now]>>]_vars
\* C16: an upstream document that has neither an error field nor the
\* series key is never the data of a cache row and never the data of an
\* answer.
C16_MalformedNeverStoredNorServed ==
    /\ \A s \in Symbols :
         cache[s] # NoEntry => Deserialize(cache[s].data) \notin MalformedPayloads
    /\ lastDone.res.data \notin MalformedPayloads

\* C17: a step that changes the cache is the write of a call that holds a
\* valid upstream series, and it changes the row of that call's symbol only
\* (so a call answered from the cache, or whose upstream fetch failed,
\* changes no row).
C17_OnlyValidSeriesWrites ==
    [][cache' # cache
       => /\ req[1].pc = "upserting"
          /\ req[1].apiData \in SeriesPayloads
          /\ \A s \in Symbols \ {req[1].symbol} : cache'[s] = cache[s]]_vars

\* the age of the row of symbol s, in hours
Age(s) == now - cache[s].fetched_at

C13_DegenerateInputsGiveZeros ==
    (mounted /\ (stockData = <<>> \/ investmentAmount <= 0 \/ yearsAgo <= 0))
    => /\ simulationResult # NoResult
       /\ simulationResult.shares = Num(0)
       /\ simulationResult.investedAmount = Num(0)
       /\ simulationResult.currentValue = Num(0)
       /\ simulationResult.profit = Num(0)
       /\ simulationResult.profitPercent = Num(0)
       /\ simulationResult.annualReturn = Num(0)
\* the environment of a run one month later in the same zone
OneMonthLater(e) == [ym |-> e.ym + 1, west |-> e.west]

\* C15: a second run with the same series, amount, yearsAgo and strategy,
\* made one month after the run that produced the result, returns the same
\* result.
C15_SameInputsSameResult ==
    Calculated
    => calculateSimulation(stockData, investmentAmount, yearsAgo, investmentType,
                           OneMonthLater(env)) = simulationResult

(***************************************************************************)
(* Properties of the monthly aggregation.                                  *)
(***************************************************************************)
InvestmentRecords == {i \in 1..Len(allExpenses) : allExpenses[i].category = "investment"}
\* the places (group, position) at which record i is listed
PlacesOf(i) ==
    {p \in {<<k, j>> : k \in 1..Len(aggregate.monthlyData), j \in 1..MaxExpenses} :
       /\ p[2] <= Len(aggregate.monthlyData[p[1]].transactions)
       /\ aggregate.monthlyData[p[1]].transactions[p[2]] = i}
RECURSIVE AmountsOf(_, _)
AmountsOf(transactions, n) ==
    IF n > Len(transactions) THEN 0
    ELSE allExpenses[transactions[n]].amount + AmountsOf(transactions, n + 1)

\* C14: the groups the aggregation returns partition exactly the records of
\* category "investment" by the calendar month of their date: each such
\* record is listed once, in the group of its month; no other record is
\* listed; no month has two groups; a group's totalAmount is the sum of its
\* records' amounts; the overall totalAmount is the sum of the group totals.
C14_PartitionByMonth ==
    aggregate.by # "none"
    => LET groups == aggregate.monthlyData
       IN /\ \A i \in InvestmentRecords :
               /\ Cardinality(PlacesOf(i)) = 1
               /\ \A p \in PlacesOf(i) : groups[p[1]].month = allExpenses[i].date.ym
          /\ \A i \in 1..Len(allExpenses) : PlacesOf(i) # {} => i \in InvestmentRecords
          /\ \A k, l \in 1..Len(groups) : k # l => groups[k].month # groups[l].month
          /\ \A k \in 1..Len(groups) :
               groups[k].totalAmount = AmountsOf(groups[k].transactions, 1)
          /\ aggregate.totalAmount = SumTotals(groups, 1)
(***************************************************************************)
(* Properties of the start date and of the periodic purchases.             *)
(***************************************************************************)
\* the first day of the month yearsAgo years before the current date
TargetMonth == [ym |-> env.ym - yearsAgo * MonthsPerYear, day |-> 1]
\* the series dates on or after the first day of the target month
DatesFromTarget ==
    {d \in {stockData[i].date : i \in 1..Len(stockData)} : ~DateBefore(d, TargetMonth)}
Earliest(dates) == CHOOSE d \in dates : \A o \in dates : ~DateBefore(o, d)

\* C19: the start date of the result is the earliest series date on or after
\* the first day of the target month, and the earliest date of the series
\* when no series date is on or after it.
C19_StartDateIsEarliestFromTarget ==
    Calculated
    => simulationResult.startDate =
         IF DatesFromTarget # {} THEN Earliest(DatesFromTarget)
         ELSE Earliest({stockData[i].date : i \in 1..Len(stockData)})
\* the dates of the series on or after the start date of the result
DatesFromStart == {stockData[i].date : i \in PointsFromStart}
\* the dates of the purchases recorded in the periodic result
PurchaseDates ==
    {simulationResult.investmentHistory[k].date :
        k \in 1..Len(simulationResult.investmentHistory)}

C21_SnapshotAtOwnPrice ==
    (Calculated /\ investmentType = "monthly")
    => \A k \in 1..Len(simulationResult.investmentHistory) :
         LET snap == simulationResult.investmentHistory[k]
         IN /\ snap.currentValue = FMul(snap.shares, CloseOn(stockData, snap.date))
            /\ snap.profit = FSub(snap.currentValue, snap.totalInvested)

\* the last entry of the periodic investment history
LastSnapshot ==
    simulationResult.investmentHistory[Len(simulationResult.investmentHistory)]

\* C22: the shares, invested amount, current value and profit of the periodic
\* result are the shares, totalInvested, valuation and profit of the last
\* entry of its investment history.
C22_FinalIsLastSnapshot ==
    (Calculated /\ investmentType = "monthly"
       /\ simulationResult.investmentHistory # <<>>)
    => /\ simulationResult.shares = LastSnapshot.shares
       /\ simulationResult.investedAmount = LastSnapshot.totalInvested
       /\ simulationResult.currentValue = LastSnapshot.currentValue
       /\ simulationResult.profit = LastSnapshot.profit

\* A periodic result of two purchases at different closes.
C22_Witness ==
    /\ Calculated /\ investmentType = "monthly" /\ investmentAmount > 0
    /\ Len(simulationResult.investmentHistory) = 2
    /\ simulationResult.investmentHistory[1].shares # LastSnapshot.shares
    /\ \E i, j \in 1..Len(stockData) : stockData[i].close # stockData[j].close

Listings(n) == {f \in [1..n -> 1..n] : \A i, j \in 1..n : f[i] = f[j] => i = j}
\* the same dated price points listed in the order f
Relisted(f) == [i \in 1..Len(stockData) |-> stockData[f[i]]]

\* C24: for every permutation of the listed price points, calculateSimulation
\* (lump sum and periodic) and the ledger simulation return on the permuted
\* series the result they returned on the series as listed.
C24_OrderOfListingIrrelevant ==
    \A f \in Listings(Len(stockData)) :
       /\ Calculated
          => calculateSimulation(Relisted(f), investmentAmount, yearsAgo,
                                 investmentType, env) = simulationResult
       /\ rendered
          => SimulationData(Relisted(f), monthlyData) = simulationData

\* Both simulations run on a series listed newest first, with purchases at
\* two different closes.
C24_Witness ==
    /\ Calculated /\ rendered /\ investmentType = "monthly"
    /\ Len(stockData) = 2
    /\ DateBefore(stockData[2].date, stockData[1].date)
    /\ stockData[1].close # stockData[2].close
    /\ Len(simulationResult.investmentHistory) = 2
    /\ FGt(simulationData[1].shares, Num(0))
    /\ FGt(simulationData[2].shares, simulationData[1].shares)

CeilDiv(n, step) == (n + step - 1) \div step
\* the three arrays of a chart all have the length ceil(n / step)
ParallelArrays(chart, n, step) ==
    /\ Len(chart.labels) = CeilDiv(n, step)
    /\ Len(chart.principal) = CeilDiv(n, step)
    /\ Len(chart.valuation) = CeilDiv(n, step)
\* the price points from the start date of the result on, ascending
PointsOfLumpChart == NotBefore(SortedData(stockData), 1, simulationResult.startDate)

\* C26: a chart keeps every Nth snapshot from the first one on (N = 2 for
\* the ledger chart, 3 for the lump sum, 6 for the periodic chart); its
\* labels, principal and valuation arrays all have the length
\* ceil(snapshots / N), and their k-th elements are the label, the principal
\* and the valuation of the snapshot at index k * N.
C26_ChartArraysParallel ==
    /\ (Calculated /\ investmentType = "lump")
       => /\ ParallelArrays(simulationResult.chartData, Len(PointsOfLumpChart), 3)
          /\ \A k \in 0..(Len(simulationResult.chartData.labels) - 1) :
               /\ simulationResult.chartData.labels[k + 1] =
                      ChartLabel(PointsOfLumpChart[k * 3 + 1].date, env.west)
               /\ simulationResult.chartData.principal[k + 1] = Num(investmentAmount)
               /\ simulationResult.chartData.valuation[k + 1] =
                      FMul(simulationResult.shares, PointsOfLumpChart[k * 3 + 1].price)
    /\ (Calculated /\ investmentType = "monthly")
       => /\ ParallelArrays(simulationResult.chartData,
                            Len(simulationResult.investmentHistory), 6)
          /\ \A k \in 0..(Len(simulationResult.chartData.labels) - 1) :
               LET snap == simulationResult.investmentHistory[k * 6 + 1]
               IN /\ simulationResult.chartData.labels[k + 1] =
                         ChartLabel(snap.date, env.west)
                  /\ simulationResult.chartData.principal[k + 1] = snap.totalInvested
                  /\ simulationResult.chartData.valuation[k + 1] = snap.currentValue
    /\ rendered
       => /\ ParallelArrays(chartData, Len(simulationData), 2)
          /\ \A k \in 0..(Len(chartData.labels) - 1) :
               LET snap == simulationData[k * 2 + 1]
               IN /\ chartData.labels[k + 1] = ChartLabel(snap.date, env.west)
                  /\ chartData.principal[k + 1] = snap.totalInvested
                  /\ chartData.valuation[k + 1] = snap.currentValue

\* A periodic chart and a ledger chart that both keep several snapshots of
\* a list whose length is not a multiple of the step.
C26_Witness ==
    /\ Calculated /\ investmentType = "monthly" /\ rendered
    /\ Len(simulationResult.investmentHistory) % 6 # 0
    /\ Len(simulationResult.chartData.labels) >= 2
    /\ simulationResult.chartData.principal[1] # simulationResult.chartData.principal[2]
    /\ Len(simulationData) % 2 # 0
    /\ Len(chartData.labels) >= 2

RECURSIVE RecordedWithPriceUpTo(_)
\* the sum of the amounts of the first k ledger months that have a price point
RecordedWithPriceUpTo(k) ==
    IF k = 0 THEN 0
    ELSE RecordedWithPriceUpTo(k - 1)
         + (IF \E i \in 1..Len(stockData) : stockData[i].date.ym = monthlyData[k].month
            THEN monthlyData[k].totalAmount ELSE 0)
RECURSIVE RecordedUpTo(_)
\* the sum of the amounts of the first k ledger months
RecordedUpTo(k) ==
    IF k = 0 THEN 0 ELSE RecordedUpTo(k - 1) + monthlyData[k].totalAmount

\* C27: the totalInvested of the last snapshot of the ledger simulation is
\* the sum of the recorded amounts of the ledger months that have a price
\* point in the series, and it is not above the sum of all recorded amounts
\* (the dates of the series being distinct).
C27_LedgerInvestedOnce ==
    (rendered /\ simulationData # <<>>)
    => /\ simulationData[Len(simulationData)].totalInvested =
              Num(RecordedWithPriceUpTo(Len(monthlyData)))
       /\ ~FGt(simulationData[Len(simulationData)].totalInvested,
               Num(RecordedUpTo(Len(monthlyData))))

(***************************************************************************)
(* Properties of the expense endpoints.                                    *)
(***************************************************************************)
\* C28: every request to an expense endpoint answers only rows owned by the
\* requesting user and adds or removes no row owned by another user; a
\* request without an authenticated user is answered 401 and leaves the table
\* as it was.
C28_OwnerScoped ==
    [][/\ apiResponse'.user = NoUser
          => /\ apiResponse'.status = 401
             /\ kakeibo_data' = kakeibo_data
       /\ \A row \in apiResponse'.rows : row.user_id = apiResponse'.user
       /\ \A row \in kakeibo_data \cup kakeibo_data' :
            row.user_id \in Users \ {apiResponse'.user}
            => (row \in kakeibo_data <=> row \in kakeibo_data')]_vars

(***************************************************************************)
(* Properties of the invest page.                                          *)
(***************************************************************************)
\* the stock request gave an ok response whose body is JSON without error
StockSucceeded ==
    /\ stockRes # NoFetch /\ stockRes # Rejected
    /\ stockRes.ok /\ stockRes.body \in JsonBodies
\* the expense request gave a response (of any status and body)
ExpenseAnswered == expenseRes # NoFetch /\ expenseRes # Rejected

\* C29: when fetchData is over, the stock request having succeeded with a
\* payload without an error field and the expense request having been
\* answered (with any status, an error body or a body that does not parse),
\* the page's stockData is that payload; and the page's stockData is an
\* error object only if the stock request failed.
C29_ExpenseFailureNeverMasksStock ==
    (fetchPc = "done" /\ ExpenseAnswered)
    => /\ StockSucceeded => pageStockData = stockRes.body
       /\ pageStockData = ErrorObject => ~StockSucceeded

\* C30: once both requests have completed, isLoading eventually becomes
\* false and stays false.
C30_LoadingEnds ==
    (fetchPc \notin {"idle", "awaiting"}) ~> [](~isLoading)

\* fetchData over after the catch block ran, loading ended.
C30_Witness ==
    /\ fetchPc = "done" /\ ~isLoading
    /\ pageStockData = ErrorObject
    /\ ExpenseAnswered /\ expenseRes.ok
====
